---------------------------- MODULE Spec2Model ----------------------------
(***************************************************************************)
(* Model of the rp2040 page turner runtime (src/rp2040_util.py, with the   *)
(* application poll pattern of src/code.py): the cooperative scheduler     *)
(* gadget_main, the shared Heartbeat clock, the TapInput gesture           *)
(* classifier and the LampBase timed outputs; and of the application       *)
(* itself, PageTurner in src/code.py, whose loop reads the clock, connects *)
(* the keyboard, updates its lamps and handles the taps in one poll.       *)
(*                                                                         *)
(* Time is counted in ticks of 50 ms, so that the source's 0.05 s and      *)
(* 0.5 s become the integers 1 and 10.  Python's None is the integer -1,   *)
(* which no clock value, duration or deadline can take.                    *)
(***************************************************************************)
EXTENDS Integers, Sequences, FiniteSets, TLC

VARIABLES
    time,       \* Heartbeat.time
    pc,         \* position of gadget_main: "init", "sleep", "update", "poll";
                \* of PageTurner.loop: "init", "sleep"
    idx,        \* index of the lamp the for-loop of gadget_main updates next
    horizon,    \* the clock value at which the model stops advancing the clock
    lamps,      \* Controller.lamps, a sequence of lamp records
    armed,      \* TapInput.taps is not None
    taps,       \* TapInput.taps, a sequence of Tap records (<<>> while None)
    tapped,     \* the contact sampled by the last check_released
    released,   \* what the last check_released returned
    tap_count,  \* what check_taps returned in the last poll, None if not called
    calls,      \* history: the calls gadget_main made in the current iteration
    n_init,     \* history: how often gadget.init() was called
    seen,       \* history: contact pulses sampled since the last reported gesture
    done,       \* history: the pulses that made up the gesture the last poll reported
    short,      \* history: the last sample released a pulse shorter than TAP_MIN_SECS
    n_reports,  \* history: gestures reported so far, counted up to 2
    issued,     \* history: per lamp, the command the poll of this iteration issued
    last_cmd,   \* history: per lamp, the latest turn_on/turn_off issued by poll
    entered,    \* history: per lamp of the lamp gadget, the latest call of
                \* turn_on/turn_off, made by poll or by update
    keyboard_output,  \* PageTurner.keyboard_output is not None
    sent        \* history: the keystrokes the last poll sent, each with the
                \* value supervisor.runtime.usb_connected had at that moment

vars == <<time, pc, idx, horizon, lamps, armed, taps, tapped, released,
          tap_count, calls, n_init, seen, done, short, n_reports, issued, last_cmd,
          entered, keyboard_output, sent>>

tapVars == <<armed, taps, tapped, released, tap_count, seen, done, short,
            n_reports>>

pageVars == <<keyboard_output, sent>>

None == -1

\* ------------------------------------------------------------------ bounds
MaxTime == 20       \* the clock of the tap gadget stops advancing here
MaxLiveTime == 12    \* the same, where the single tap is followed to its report
MaxLampTime == 6    \* the clock of the lamp gadget stops advancing here
MaxStep == 1        \* largest clock advance between two iterations
MaxPulses == 3      \* contact pulses of at least TAP_MIN_SECS sampled per gesture
MaxPageTime == 10   \* the clock of the page turner stops advancing here
MaxOfflineTime == 20  \* the same, where no host ever connects
MaxPagePulses == 2  \* the same as MaxPulses, for the page turner

\* --------------------------------------------------------------- constants
TAP_VALUE_THRESHOLD == 1000
TAP_MIN_SECS == 1
TAP_CAPTURE_SECS == 10

\* Raw readings of the analog sensor that the model samples.
SensorValues == {0, 999, 1000}

\* The two readings next to the threshold: contact and no contact.
ContactValues == {TAP_VALUE_THRESHOLD - 1, TAP_VALUE_THRESHOLD}

\* ------------------------------------------------------------------- Tap
Tap(start) == [start |-> start, end |-> None]

Last(s) == s[Len(s)]

ButLast(s) == SubSeq(s, 1, Len(s) - 1)

Min(a, b) == IF a < b THEN a ELSE b

\* ------------------------------------------------------- TapInput methods
\* Mutants of check_released, each a plausible slip in it.
\* A released tap is finalized whatever its duration.
CheckReleasedBadDebounce(a, t, value, now) ==
    LET isTapped == value < TAP_VALUE_THRESHOLD IN
    IF ~a THEN [armed |-> ~isTapped, taps |-> <<>>, ret |-> FALSE]
    ELSE IF isTapped THEN
        [armed |-> TRUE,
         taps |-> IF Len(t) = 0 \/ Last(t).end /= None
                  THEN Append(t, Tap(now)) ELSE t,
         ret |-> FALSE]
    ELSE
        LET t2 == IF Len(t) > 0 /\ Last(t).end = None
                  THEN [t EXCEPT ![Len(t)].end = now]
                  ELSE t
        IN  [armed |-> TRUE, taps |-> t2,
             ret |-> Len(t2) > 0 /\ now - t2[1].start >= TAP_CAPTURE_SECS]

\* A new Tap is added only while the sequence is empty.
CheckReleasedNoSecondTap(a, t, value, now) ==
    LET isTapped == value < TAP_VALUE_THRESHOLD IN
    IF ~a THEN [armed |-> ~isTapped, taps |-> <<>>, ret |-> FALSE]
    ELSE IF isTapped THEN
        [armed |-> TRUE,
         taps |-> IF Len(t) = 0 THEN Append(t, Tap(now)) ELSE t,
         ret |-> FALSE]
    ELSE
        LET t2 == IF Len(t) > 0 /\ Last(t).end = None
                  THEN IF now - Last(t).start >= TAP_MIN_SECS
                       THEN [t EXCEPT ![Len(t)].end = now]
                       ELSE ButLast(t)
                  ELSE t
        IN  [armed |-> TRUE, taps |-> t2,
             ret |-> Len(t2) > 0 /\ now - t2[1].start >= TAP_CAPTURE_SECS]

\* The capture window is compared with > instead of >=.
CheckReleasedLateWindow(a, t, value, now) ==
    LET isTapped == value < TAP_VALUE_THRESHOLD IN
    IF ~a THEN [armed |-> ~isTapped, taps |-> <<>>, ret |-> FALSE]
    ELSE IF isTapped THEN
        [armed |-> TRUE,
         taps |-> IF Len(t) = 0 \/ Last(t).end /= None
                  THEN Append(t, Tap(now)) ELSE t,
         ret |-> FALSE]
    ELSE
        LET t2 == IF Len(t) > 0 /\ Last(t).end = None
                  THEN IF now - Last(t).start >= TAP_MIN_SECS
                       THEN [t EXCEPT ![Len(t)].end = now]
                       ELSE ButLast(t)
                  ELSE t
        IN  [armed |-> TRUE, taps |-> t2,
             ret |-> Len(t2) > 0 /\ now - t2[1].start > TAP_CAPTURE_SECS]

\* No startup guard: taps are recorded from the first call on.
CheckReleasedNoGuard(a, t, value, now) ==
    LET isTapped == value < TAP_VALUE_THRESHOLD IN
    IF isTapped THEN
        [armed |-> a,
         taps |-> IF Len(t) = 0 \/ Last(t).end /= None
                  THEN Append(t, Tap(now)) ELSE t,
         ret |-> FALSE]
    ELSE
        LET t2 == IF Len(t) > 0 /\ Last(t).end = None
                  THEN IF now - Last(t).start >= TAP_MIN_SECS
                       THEN [t EXCEPT ![Len(t)].end = now]
                       ELSE ButLast(t)
                  ELSE t
        IN  [armed |-> TRUE, taps |-> t2,
             ret |-> Len(t2) > 0 /\ now - t2[1].start >= TAP_CAPTURE_SECS]

\* The capture window is not waited for.
CheckReleasedNoWindow(a, t, value, now) ==
    LET isTapped == value < TAP_VALUE_THRESHOLD IN
    IF ~a THEN [armed |-> ~isTapped, taps |-> <<>>, ret |-> FALSE]
    ELSE IF isTapped THEN
        [armed |-> TRUE,
         taps |-> IF Len(t) = 0 \/ Last(t).end /= None
                  THEN Append(t, Tap(now)) ELSE t,
         ret |-> FALSE]
    ELSE
        LET t2 == IF Len(t) > 0 /\ Last(t).end = None
                  THEN IF now - Last(t).start >= TAP_MIN_SECS
                       THEN [t EXCEPT ![Len(t)].end = now]
                       ELSE ButLast(t)
                  ELSE t
        IN  [armed |-> TRUE, taps |-> t2, ret |-> Len(t2) > 0]

\* A Tap is added at every sample that shows contact.
CheckReleasedAlwaysAdd(a, t, value, now) ==
    LET isTapped == value < TAP_VALUE_THRESHOLD IN
    IF ~a THEN [armed |-> ~isTapped, taps |-> <<>>, ret |-> FALSE]
    ELSE IF isTapped THEN
        [armed |-> TRUE, taps |-> Append(t, Tap(now)), ret |-> FALSE]
    ELSE
        LET t2 == IF Len(t) > 0 /\ Last(t).end = None
                  THEN IF now - Last(t).start >= TAP_MIN_SECS
                       THEN [t EXCEPT ![Len(t)].end = now]
                       ELSE ButLast(t)
                  ELSE t
        IN  [armed |-> TRUE, taps |-> t2,
             ret |-> Len(t2) > 0 /\ now - t2[1].start >= TAP_CAPTURE_SECS]

\* TapInput.check_released on state (a, t) with raw reading value at clock
\* now: the new state and the returned flag.
check_released(a, t, value, now) ==
    LET isTapped == value < TAP_VALUE_THRESHOLD IN
    IF ~a THEN
        \* Wait for an initial tap to release when starting up.
        [armed |-> ~isTapped, taps |-> <<>>, ret |-> FALSE]
    ELSE IF isTapped THEN
        [armed |-> TRUE,
         taps |-> IF Len(t) = 0 \/ Last(t).end /= None
                  THEN Append(t, Tap(now)) ELSE t,
         ret |-> FALSE]
    ELSE
        \* Finalize unfinished last tap or remove short tap as appropriate.
        LET t2 == IF Len(t) > 0 /\ Last(t).end = None
                  THEN IF now - Last(t).start >= TAP_MIN_SECS
                       THEN [t EXCEPT ![Len(t)].end = now]
                       ELSE ButLast(t)
                  ELSE t
        IN  IF Len(t2) = 0 THEN [armed |-> TRUE, taps |-> t2, ret |-> FALSE]
            ELSE IF now - t2[1].start < TAP_CAPTURE_SECS
                 THEN [armed |-> TRUE, taps |-> t2, ret |-> FALSE]
                 ELSE [armed |-> TRUE, taps |-> t2, ret |-> TRUE]

\* Mutants of check_taps: the count is not capped; the sequence is kept.
CheckTapsNoCap(t) == [count |-> Len(t), taps |-> <<>>]

CheckTapsNoClear(t) == [count |-> Min(Len(t), 2), taps |-> t]

\* TapInput.check_taps: the count returned; the sequence is emptied.
check_taps(t) == [count |-> Min(Len(t), 2), taps |-> <<>>]

\* ------------------------------------------------------------------ lamps
\* Colours are the integers the pixel driver takes, 0 being blank.
STATUS_COLOR_SINGLE_TAP == 16711680
STATUS_COLOR_DOUBLE_TAP == 65280

\* Hold durations of the page turner's lamps, in ticks.  PULSE_SECS is 0.02 s,
\* less than a tick, and is taken as one tick; the pulse lamp is the only lamp
\* that has it.
STATUS_LAMP_ON_SECS == 20
PGXX_LAMP_ON_SECS == 20
PULSE_SECS == 1

Colors == {STATUS_COLOR_SINGLE_TAP, STATUS_COLOR_DOUBLE_TAP}

\* The on_secs and off_secs a lamp is registered with.
Durations == {None, 0, 1, 2}

\* Python's truth value of a deadline: None and 0 are false.
Truthy(x) == x /= None /\ x /= 0

\* LampBase.__init__; device is the pin level (1 high, 0 low) of a Lamp and
\* the colour shown by a MulticolorLamp.
LampBase(kind, device, on_secs, off_secs, is_on) ==
    [kind |-> kind, device |-> device, on_secs |-> on_secs,
     off_secs |-> off_secs, is_on |-> is_on, on_time |-> None,
     off_time |-> None, color |-> None]

\* Lamp.__init__: is_on is the level the pin has at construction.
Lamp(value, on_secs, off_secs) ==
    LampBase("lamp", value, on_secs, off_secs, value = 1)

\* MulticolorLamp.__init__
MulticolorLamp(on_secs, off_secs, color) ==
    [LampBase("multicolor", 0, on_secs, off_secs, FALSE) EXCEPT !.color = color]

set_color(l, color) == [l EXCEPT !.color = color]

\* Mutant of on_turn_on: a MulticolorLamp that shows a colour is not painted
\* again.
OnTurnOnKeepShown(l) ==
    IF l.kind = "lamp" THEN [l EXCEPT !.device = 1]
    ELSE IF l.color /= None /\ l.device = 0 THEN [l EXCEPT !.device = l.color]
    ELSE l

\* Lamp.on_turn_on / MulticolorLamp.on_turn_on
on_turn_on(l) ==
    IF l.kind = "lamp" THEN [l EXCEPT !.device = 1]
    ELSE IF l.color /= None THEN [l EXCEPT !.device = l.color] ELSE l

\* Lamp.on_turn_off / MulticolorLamp.on_turn_off
on_turn_off(l) == [l EXCEPT !.device = 0]

\* Mutants of turn_on: an already lit lamp is left alone; a missing on_secs
\* is taken as 0.
TurnOnUnlessLit(l, now) ==
    IF l.is_on THEN l
    ELSE [on_turn_on(l) EXCEPT
            !.is_on = TRUE,
            !.off_time = IF l.on_secs /= None THEN now + l.on_secs ELSE None]

TurnOnMissingAsZero(l, now) ==
    [on_turn_on(l) EXCEPT
        !.is_on = TRUE,
        !.off_time = IF l.on_secs /= None THEN now + l.on_secs ELSE now]

\* LampBase.turn_on
turn_on(l, now) ==
    [on_turn_on(l) EXCEPT
        !.is_on = TRUE,
        !.off_time = IF l.on_secs /= None THEN now + l.on_secs ELSE None]

\* LampBase.turn_off
turn_off(l, now) ==
    [on_turn_off(l) EXCEPT
        !.is_on = FALSE,
        !.on_time = IF l.off_secs /= None THEN now + l.off_secs ELSE None]

\* Mutant of update: the deadline must have been passed, not reached.
UpdateLate(l, now) ==
    IF l.is_on
    THEN IF Truthy(l.off_time) /\ now > l.off_time THEN turn_off(l, now) ELSE l
    ELSE IF Truthy(l.on_time) /\ now > l.on_time THEN turn_on(l, now) ELSE l

\* Mutant of update: the lamp changes one tick before its deadline.
UpdateEarly(l, now) ==
    IF l.is_on
    THEN IF Truthy(l.off_time) /\ now + 1 >= l.off_time THEN turn_off(l, now) ELSE l
    ELSE IF Truthy(l.on_time) /\ now + 1 >= l.on_time THEN turn_on(l, now) ELSE l

\* LampBase.update
update(l, now) ==
    IF l.is_on
    THEN IF Truthy(l.off_time) /\ now >= l.off_time THEN turn_off(l, now) ELSE l
    ELSE IF Truthy(l.on_time) /\ now >= l.on_time THEN turn_on(l, now) ELSE l

\* History of a lamp no turn_on or turn_off was called on.
NoEntry == [op |-> "none", at |-> None, by |-> "none"]

\* The history e of lamp l after update(l, now): update calls turn_off on a
\* lit lamp or turn_on on an unlit one, or nothing.
EntryBy(l, now, e) ==
    IF update(l, now) = l THEN e
    ELSE [op |-> IF l.is_on THEN "turn_off" ELSE "turn_on",
          at |-> now, by |-> "update"]

\* What a poll may do to one lamp: nothing, turn_off, turn_on, and for a
\* MulticolorLamp set_color alone or set_color followed by turn_on.
NoCmd == [op |-> "none", color |-> None, was_on |-> FALSE, prev_off |-> None]

Cmds(l) ==
    {[op |-> o, color |-> None] : o \in {"none", "turn_on", "turn_off"}}
    \cup (IF l.kind = "multicolor"
          THEN {[op |-> o, color |-> c] : o \in {"set_color", "turn_on"}, c \in Colors}
          ELSE {})

Command(l, c, now) ==
    LET l1 == IF c.color /= None THEN set_color(l, c.color) ELSE l IN
    IF c.op = "turn_on" THEN turn_on(l1, now)
    ELSE IF c.op = "turn_off" THEN turn_off(l1, now)
    ELSE l1

\* --------------------------------------------------------------- history
\* The contact pulses as the samples show them: a pulse starts at the first
\* tapped sample after an untapped one and is released at the next untapped
\* sample.  Its measured duration is rel - start; a released pulse is kept
\* only if that reaches TAP_MIN_SECS.
SeenAfter(s, isTapped, now) ==
    IF isTapped
    THEN IF Len(s) = 0 \/ Last(s).rel /= None
         THEN Append(s, [start |-> now, rel |-> None]) ELSE s
    ELSE IF Len(s) > 0 /\ Last(s).rel = None
         THEN IF now - Last(s).start < TAP_MIN_SECS
              THEN ButLast(s)
              ELSE [s EXCEPT ![Len(s)].rel = now]
         ELSE s

\* ------------------------------------------------------------ gadget_main
\* A call gadget_main makes in an iteration; lamp is 0 unless it is an update.
Call(c, i) == [call |-> c, lamp |-> i]

\* gadget.init(), called once before the loop.
GadgetInit ==
    /\ pc = "init"
    /\ pc' = "sleep"
    /\ n_init' = n_init + 1
    /\ UNCHANGED <<time, idx, horizon, lamps, calls, issued, last_cmd, entered>>
    /\ UNCHANGED tapVars
    /\ UNCHANGED pageVars


\* Mutant of the tick: the lamp loop is skipped.
TickSkipUpdates ==
    /\ pc = "sleep"
    /\ \E d \in 0..MaxStep :
          /\ time + d <= horizon
          /\ time' = time + d
    /\ calls' = <<Call("tick", 0)>>
    /\ idx' = 1
    /\ pc' = "poll"
    /\ issued' = [i \in 1..Len(lamps) |-> NoCmd]
    /\ UNCHANGED <<horizon, lamps, n_init, last_cmd, entered>>
    /\ UNCHANGED tapVars
    /\ UNCHANGED pageVars

\* time.sleep(sleep_secs); heartbeat.tick()
Tick ==
    /\ pc = "sleep"
    /\ \E d \in 0..MaxStep :
          /\ time + d <= horizon
          /\ time' = time + d
    /\ calls' = <<Call("tick", 0)>>
    /\ idx' = 1
    /\ pc' = IF Len(lamps) = 0 THEN "poll" ELSE "update"
    /\ issued' = [i \in 1..Len(lamps) |-> NoCmd]
    /\ UNCHANGED <<horizon, lamps, n_init, last_cmd, entered>>
    /\ UNCHANGED tapVars
    /\ UNCHANGED pageVars

\* gadget.poll() of the tap gadget, as PageTurner.poll handles its tap input:
\* check_released, and check_taps when it returned True.
TapPoll ==
    /\ pc = "poll"
    /\ \E value \in SensorValues :
         LET isTapped == value < TAP_VALUE_THRESHOLD
             r == check_released(armed, taps, value, time)
             s == IF armed THEN SeenAfter(seen, isTapped, time) ELSE seen
         IN  /\ Len(s) <= MaxPulses
             /\ tapped' = isTapped
             /\ armed' = r.armed
             /\ released' = r.ret
             /\ short' = (armed /\ ~isTapped /\ Len(seen) > 0
                             /\ Last(seen).rel = None
                             /\ time - Last(seen).start < TAP_MIN_SECS)
             /\ IF r.ret
                THEN /\ tap_count' = check_taps(r.taps).count
                     /\ taps' = check_taps(r.taps).taps
                     /\ done' = s
                     /\ seen' = <<>>
                     /\ n_reports' = Min(n_reports + 1, 2)
                ELSE /\ tap_count' = None
                     /\ taps' = r.taps
                     /\ done' = <<>>
                     /\ seen' = s
                     /\ UNCHANGED n_reports
    /\ calls' = Append(calls, Call("poll", 0))
    /\ pc' = "sleep"
    /\ UNCHANGED <<time, idx, horizon, lamps, n_init, issued, last_cmd, entered>>
    /\ UNCHANGED pageVars

\* The state gadget_main is in before gadget.init(), for a gadget that owns a
\* TapInput and registers no lamp.  The clock starts at 0: iterations that
\* sample contact before the classifier is armed change nothing but the
\* clock, so every later start value is covered.
TapStart(h) ==
    /\ time = 0
    /\ horizon = h
    /\ pc = "init"
    /\ idx = 1
    /\ lamps = <<>>
    /\ armed = FALSE
    /\ taps = <<>>
    /\ tapped = FALSE
    /\ released = FALSE
    /\ tap_count = None
    /\ calls = <<>>
    /\ n_init = 0
    /\ seen = <<>>
    /\ done = <<>>
    /\ short = FALSE
    /\ n_reports = 0
    /\ issued = <<>>
    /\ last_cmd = <<>>
    /\ entered = <<>>
    /\ keyboard_output = FALSE
    /\ sent = <<>>

TapInit == TapStart(MaxTime)

TapNext == GadgetInit \/ Tick \/ TapPoll

TapSpec == TapInit /\ [][TapNext]_vars

\* Mutant of the lamp loop: a lamp that changes takes the next lamp's output
\* with it.
UpdateLampCoupled ==
    /\ pc = "update"
    /\ lamps' = [i \in 1..Len(lamps) |->
                    IF i = idx THEN update(lamps[i], time)
                    ELSE IF i = idx + 1 /\ update(lamps[idx], time) /= lamps[idx]
                         THEN on_turn_off(lamps[i])
                         ELSE lamps[i]]
    /\ entered' = [entered EXCEPT ![idx] = EntryBy(lamps[idx], time, @)]
    /\ calls' = Append(calls, Call("update", idx))
    /\ idx' = idx + 1
    /\ pc' = IF idx = Len(lamps) THEN "poll" ELSE "update"
    /\ UNCHANGED <<time, horizon, n_init, issued, last_cmd>>
    /\ UNCHANGED tapVars
    /\ UNCHANGED pageVars

\* One turn of "for lamp in controller.lamps: lamp.update()".
UpdateLamp ==
    /\ pc = "update"
    /\ lamps' = [lamps EXCEPT ![idx] = update(lamps[idx], time)]
    /\ entered' = [entered EXCEPT ![idx] = EntryBy(lamps[idx], time, @)]
    /\ calls' = Append(calls, Call("update", idx))
    /\ idx' = idx + 1
    /\ pc' = IF idx = Len(lamps) THEN "poll" ELSE "update"
    /\ UNCHANGED <<time, horizon, n_init, issued, last_cmd>>
    /\ UNCHANGED tapVars
    /\ UNCHANGED pageVars

\* gadget.poll() of a gadget that drives its lamps: each lamp gets at most one
\* command, all at the clock value of this iteration.
LampPoll ==
    /\ pc = "poll"
    /\ \E cs \in [1..Len(lamps) -> UNION {Cmds(lamps[i]) : i \in 1..Len(lamps)}] :
         /\ \A i \in 1..Len(lamps) : cs[i] \in Cmds(lamps[i])
         /\ lamps' = [i \in 1..Len(lamps) |-> Command(lamps[i], cs[i], time)]
         /\ issued' = [i \in 1..Len(lamps) |->
                          [op |-> cs[i].op, color |-> cs[i].color,
                           was_on |-> lamps[i].is_on,
                           prev_off |-> lamps[i].off_time]]
         /\ last_cmd' = [i \in 1..Len(lamps) |->
                          IF cs[i].op \in {"turn_on", "turn_off"}
                          THEN [op |-> cs[i].op, at |-> time]
                          ELSE last_cmd[i]]
         /\ entered' = [i \in 1..Len(lamps) |->
                          IF cs[i].op \in {"turn_on", "turn_off"}
                          THEN [op |-> cs[i].op, at |-> time, by |-> "poll"]
                          ELSE entered[i]]
    /\ calls' = Append(calls, Call("poll", 0))
    /\ pc' = "sleep"
    /\ UNCHANGED <<time, idx, horizon, n_init>>
    /\ UNCHANGED tapVars
    /\ UNCHANGED pageVars

\* The state gadget_main is in before gadget.init(), for a gadget whose
\* constructor registered the lamps ls with the controller and owns no
\* TapInput that it polls.  The clock starts at 0, the one value at which a
\* deadline can come out as 0; later values are reached by idle iterations.
LampStart(ls) ==
    /\ time = 0
    /\ horizon = MaxLampTime
    /\ pc = "init"
    /\ idx = 1
    /\ lamps = ls
    /\ armed = FALSE
    /\ taps = <<>>
    /\ tapped = FALSE
    /\ released = FALSE
    /\ tap_count = None
    /\ calls = <<>>
    /\ n_init = 0
    /\ seen = <<>>
    /\ done = <<>>
    /\ short = FALSE
    /\ n_reports = 0
    /\ issued = [i \in 1..Len(ls) |-> NoCmd]
    /\ last_cmd = [i \in 1..Len(ls) |-> [op |-> "none", at |-> None]]
    /\ entered = [i \in 1..Len(ls) |-> NoEntry]
    /\ keyboard_output = FALSE
    /\ sent = <<>>

\* Every lamp the controller can register.
AnyLamp ==
    {Lamp(v, a, b) : v \in {0, 1}, a \in Durations, b \in Durations}
    \cup {MulticolorLamp(a, b, c) : a \in Durations, b \in Durations,
                                     c \in {None, STATUS_COLOR_SINGLE_TAP}}

\* A gadget with one lamp of any kind and configuration.
LampInit == \E l \in AnyLamp : LampStart(<<l>>)

\* A gadget with two lamps, registered in this order: a Lamp that blinks by
\* itself once lit (as the pulse lamp of PageTurner) and a MulticolorLamp that
\* goes out by itself (as its status lamp).
Init ==
    \E v \in {0, 1}, a \in Durations \ {None} :
        LampStart(<<Lamp(v, 2, 2), MulticolorLamp(a, None, None)>>)

Next == GadgetInit \/ Tick \/ UpdateLamp \/ LampPoll

LampSpec == LampInit /\ [][Next]_vars

Spec == Init /\ [][Next]_vars

\* The scheduler keeps iterating and the clock keeps advancing: gadget_main
\* loops forever, and each iteration sleeps before it reads the clock.
TickAdvance == Tick /\ time' > time

TapLiveInit == TapStart(MaxLiveTime)

TapLiveSpec ==
    /\ TapLiveInit /\ [][TapNext]_vars
    /\ WF_vars(GadgetInit)
    /\ WF_vars(TapPoll)
    /\ SF_vars(TickAdvance)

\* ------------------------------------------------------------ PageTurner
\* The lamps of PageTurner, in the order poll updates them; the USB drive
\* lamp is never updated.
PGDN == 1
PGUP == 2
PULSE == 3
STATUS == 4
USB_DRIVE == 5

\* PageTurner.__init__: a pin made an output reads low, so every Lamp starts
\* off.
PageLamps ==
    <<Lamp(0, PGXX_LAMP_ON_SECS, None),
      Lamp(0, PGXX_LAMP_ON_SECS, None),
      Lamp(0, PULSE_SECS, PULSE_SECS),
      MulticolorLamp(STATUS_LAMP_ON_SECS, None, None),
      Lamp(0, None, None)>>

\* Mutants of the tap handling of poll: no feedback without a keyboard; the
\* lamps are turned on at a clock value read again.
HandleTapsNeedKeyboard(ls, kb, count, now) ==
    IF ~kb \/ count \notin {1, 2} THEN [lamps |-> ls, sent |-> <<>>]
    ELSE IF count = 1
    THEN [lamps |-> [ls EXCEPT
                        ![PGDN] = turn_on(@, now),
                        ![STATUS] = turn_on(set_color(@, STATUS_COLOR_SINGLE_TAP), now)],
          sent |-> <<"PAGE_DOWN">>]
    ELSE [lamps |-> [ls EXCEPT
                        ![PGUP] = turn_on(@, now),
                        ![STATUS] = turn_on(set_color(@, STATUS_COLOR_DOUBLE_TAP), now)],
          sent |-> <<"PAGE_UP">>]

HandleTapsOwnClock(ls, kb, count, now) ==
    IF count = 1
    THEN [lamps |-> [ls EXCEPT
                        ![PGDN] = turn_on(@, now + 1),
                        ![STATUS] = turn_on(set_color(@, STATUS_COLOR_SINGLE_TAP), now + 1)],
          sent |-> IF kb THEN <<"PAGE_DOWN">> ELSE <<>>]
    ELSE IF count = 2
    THEN [lamps |-> [ls EXCEPT
                        ![PGUP] = turn_on(@, now + 1),
                        ![STATUS] = turn_on(set_color(@, STATUS_COLOR_DOUBLE_TAP), now + 1)],
          sent |-> IF kb THEN <<"PAGE_UP">> ELSE <<>>]
    ELSE [lamps |-> ls, sent |-> <<>>]

\* PageTurner.poll, from "if tap_count == 1": the keystroke goes out if
\* keyboard_output is not None (kb); the page lamp and the status lamp are
\* turned on.
HandleTaps(ls, kb, count, now) ==
    IF count = 1
    THEN [lamps |-> [ls EXCEPT
                        ![PGDN] = turn_on(@, now),
                        ![STATUS] = turn_on(set_color(@, STATUS_COLOR_SINGLE_TAP), now)],
          sent |-> IF kb THEN <<"PAGE_DOWN">> ELSE <<>>]
    ELSE IF count = 2
    THEN [lamps |-> [ls EXCEPT
                        ![PGUP] = turn_on(@, now),
                        ![STATUS] = turn_on(set_color(@, STATUS_COLOR_DOUBLE_TAP), now)],
          sent |-> IF kb THEN <<"PAGE_UP">> ELSE <<>>]
    ELSE [lamps |-> ls, sent |-> <<>>]

\* PageTurner.loop up to its while: the USB drive lamp is lit if the
\* filesystem is mounted read-only.
PageLoop ==
    /\ pc = "init"
    /\ pc' = "sleep"
    /\ \E readonly \in BOOLEAN :
          lamps' = IF readonly
                   THEN [lamps EXCEPT ![USB_DRIVE] = turn_on(@, time)]
                   ELSE lamps
    /\ UNCHANGED <<time, idx, horizon, calls, n_init, issued, last_cmd, entered>>
    /\ UNCHANGED tapVars
    /\ UNCHANGED pageVars

\* One pass of the while of PageTurner.loop: time.sleep(PULSE_SECS) and
\* PageTurner.poll.  poll reads the clock once (now), makes the keyboard when
\* the host is seen connected for the first time, updates four lamps and
\* handles the tap input.  links are the values usb_connected may have.
PagePollOn(links) ==
    /\ pc = "sleep"
    /\ \E d \in 0..MaxStep, usb \in links, value \in ContactValues :
         LET now == time + d
             connect == ~keyboard_output /\ usb
             kb == keyboard_output \/ connect
             l1 == IF connect
                   THEN [lamps EXCEPT ![PGDN] = turn_on(@, now),
                                      ![PGUP] = turn_on(@, now)]
                   ELSE lamps
             l2 == [l1 EXCEPT ![PGDN] = update(@, now),
                              ![PGUP] = update(@, now),
                              ![PULSE] = update(@, now),
                              ![STATUS] = update(@, now)]
             isTapped == value < TAP_VALUE_THRESHOLD
             r == check_released(armed, taps, value, now)
             s == IF armed THEN SeenAfter(seen, isTapped, now) ELSE seen
             count == IF r.ret THEN check_taps(r.taps).count ELSE None
             h == HandleTaps(l2, kb, count, now)
         IN  /\ now <= horizon
             /\ Len(s) <= MaxPagePulses
             /\ time' = now
             /\ keyboard_output' = kb
             /\ lamps' = h.lamps
             /\ sent' = [i \in 1..Len(h.sent) |-> [key |-> h.sent[i], linked |-> usb]]
             /\ tapped' = isTapped
             /\ armed' = r.armed
             /\ released' = r.ret
             /\ short' = (armed /\ ~isTapped /\ Len(seen) > 0
                             /\ Last(seen).rel = None
                             /\ now - Last(seen).start < TAP_MIN_SECS)
             /\ tap_count' = count
             /\ IF r.ret
                THEN /\ taps' = check_taps(r.taps).taps
                     /\ done' = s
                     /\ seen' = <<>>
                     /\ n_reports' = Min(n_reports + 1, 2)
                ELSE /\ taps' = r.taps
                     /\ done' = <<>>
                     /\ seen' = s
                     /\ UNCHANGED n_reports
    /\ UNCHANGED <<pc, idx, horizon, calls, n_init, issued, last_cmd, entered>>

\* The host may connect and disconnect at any time.
PagePoll == PagePollOn(BOOLEAN)

\* No host is ever connected.
OfflinePoll == PagePollOn({FALSE})

\* The state of the program when PageTurner() has been constructed.
PageStart(h) ==
    /\ time = 0
    /\ horizon = h
    /\ pc = "init"
    /\ idx = 1
    /\ lamps = PageLamps
    /\ armed = FALSE
    /\ taps = <<>>
    /\ tapped = FALSE
    /\ released = FALSE
    /\ tap_count = None
    /\ calls = <<>>
    /\ n_init = 0
    /\ seen = <<>>
    /\ done = <<>>
    /\ short = FALSE
    /\ n_reports = 0
    /\ issued = <<>>
    /\ last_cmd = <<>>
    /\ entered = <<>>
    /\ keyboard_output = FALSE
    /\ sent = <<>>

PageInit == PageStart(MaxPageTime)

PageNext == PageLoop \/ PagePoll

PageSpec == PageInit /\ [][PageNext]_vars

\* The page turner run without a host for long enough to make two gestures.
OfflineInit == PageStart(MaxOfflineTime)

OfflineNext == PageLoop \/ OfflinePoll

OfflineSpec == OfflineInit /\ [][OfflineNext]_vars

\* A gesture was reported by the poll that just ran.
Reported == pc = "sleep" /\ released

Qualifies(p) == p.rel /= None /\ p.rel - p.start >= TAP_MIN_SECS

\* ================================================================ claims
\* C1 (double tap): no gesture is reported before TAP_CAPTURE_SECS have
\* passed since the start of its first pulse, so a second pulse that starts
\* inside that window always joins the first; and a reported gesture made of
\* two pulses of at least TAP_MIN_SECS, the second started less than
\* TAP_CAPTURE_SECS after the first, has count 2, whether the second pulse
\* was released before or after the window ended.
C1_DoubleTap ==
    Reported =>
        /\ Len(done) >= 1
        /\ time - done[1].start >= TAP_CAPTURE_SECS
        /\ (/\ Len(done) = 2
            /\ Qualifies(done[1]) /\ Qualifies(done[2])
            /\ done[2].start - done[1].start < TAP_CAPTURE_SECS)
           => tap_count = 2

\* A double tap whose second pulse was released after the window ended.
C1_Witness ==
    /\ Reported /\ tap_count = 2 /\ Len(done) = 2
    /\ done[2].start - done[1].start < TAP_CAPTURE_SECS
    /\ done[2].rel - done[1].start > TAP_CAPTURE_SECS

\* One finished pulse of at least TAP_MIN_SECS is pending, alone.
C2_Pending ==
    /\ armed /\ ~tapped /\ Len(seen) = 1 /\ Qualifies(seen[1])
    /\ seen[1].start + TAP_CAPTURE_SECS <= horizon

\* C2 (single tap): a lone finished pulse is never left pending by an
\* iteration that samples no contact TAP_CAPTURE_SECS or more after the
\* pulse started (so it is reported at the first such iteration); the
\* gesture reported for it has count 1; a report always needs a pulse sampled
\* since the previous report, so none follows while contact stays away; and
\* with the clock advancing the report does come, unless contact returns.
C2_SingleTap ==
    /\ []((pc = "sleep" /\ armed /\ ~tapped /\ Len(seen) >= 1)
            => time - seen[1].start < TAP_CAPTURE_SECS)
    /\ []((Reported /\ Len(done) = 1)
            => (tap_count = 1 /\ time - done[1].start >= TAP_CAPTURE_SECS))
    /\ []((Reported /\ Len(done) = 0) => FALSE)
    /\ (C2_Pending ~> ((Reported /\ tap_count = 1 /\ Len(done) = 1)
                          \/ Len(seen) >= 2))

\* A single tap was reported: one pulse, count 1, nothing left pending.
C2_Witness ==
    /\ Reported /\ tap_count = 1 /\ Len(done) = 1 /\ Qualifies(done[1])
    /\ taps = <<>> /\ seen = <<>>

\* C3 (saturation): whenever check_released has just returned True, the
\* check_taps that follows returns 1 or 2, never 0 and never 3 or more; three
\* or more pending taps give exactly 2.
C3_Saturation ==
    /\ (pc = "sleep" /\ released) => tap_count \in {1, 2}
    /\ (pc = "sleep" /\ released /\ Len(done) >= 3) => tap_count = 2
    /\ (pc = "sleep" /\ ~released) => tap_count = None

\* Three pulses of at least TAP_MIN_SECS were pending and 2 was reported.
C3_Witness ==
    /\ pc = "sleep" /\ released /\ Len(done) = 3 /\ tap_count = 2
    /\ \A i \in 1..3 : Qualifies(done[i])

\* C4 (debounce): in the iteration that observes the release of a pulse
\* shorter than TAP_MIN_SECS the pulse leaves the pending sequence (every tap
\* still pending is finished and lasted at least TAP_MIN_SECS); a reported
\* gesture counts only pulses of at least TAP_MIN_SECS, of which there is at
\* least one, so short pulses alone never make check_released return True.
C4_Debounce ==
    /\ (pc = "sleep" /\ short) =>
          \A i \in 1..Len(taps) :
              /\ taps[i].end /= None
              /\ taps[i].end - taps[i].start >= TAP_MIN_SECS
    /\ (pc = "sleep" /\ released) =>
          /\ Len(done) >= 1
          /\ tap_count <= Len(done)
          /\ \A i \in 1..Len(done) : Qualifies(done[i])

\* A short pulse was just discarded while an earlier tap stays pending.
C4_Witness ==
    pc = "sleep" /\ short /\ ~released /\ Len(taps) = 1 /\ armed

\* C5 (startup guard): every check_released made while the classifier is
\* not armed, so every call up to and including the first one that samples
\* no contact, returns False and records no tap, however long contact is held.
C5_StartupGuard ==
    [][~armed => (~released' /\ taps' = <<>> /\ tap_count' = None)]_vars

\* Contact has been held since construction for longer than the capture
\* window and nothing was reported or recorded.
C5_Witness ==
    /\ pc = "sleep" /\ ~armed /\ tapped /\ time > TAP_CAPTURE_SECS
    /\ ~released /\ taps = <<>>

\* C6 (each gesture reported once): after a poll that reported a gesture the
\* pending sequence is empty; the pending taps are always exactly the pulses
\* sampled since the last report, so no tap is counted twice; and a report
\* needs a pulse started after the previous report whose capture window has
\* elapsed.
C6_ReportedOnce ==
    /\ (pc = "sleep" /\ released) => taps = <<>> /\ seen = <<>>
    /\ armed =>
          /\ Len(taps) = Len(seen)
          /\ \A i \in 1..Len(taps) :
                taps[i].start = seen[i].start /\ taps[i].end = seen[i].rel
    /\ (pc = "sleep" /\ released) =>
          /\ Len(done) >= 1
          /\ time - done[1].start >= TAP_CAPTURE_SECS

\* A second gesture is reported, made of pulses sampled after the first one.
C6_Witness ==
    /\ pc = "sleep" /\ released /\ n_reports = 2 /\ taps = <<>>
    /\ Len(done) >= 1

\* Lamp i has had its update of the current iteration.
Updated(i) == pc \in {"poll", "sleep"} \/ (pc = "update" /\ idx > i)

\* C7 (lamp auto-revert): a lamp with on_secs = d > 0 and off_secs = None
\* whose latest command is a turn_on at clock value t is, after each update,
\* ON exactly while now < t + d; once OFF it shows nothing, has no turn-on
\* deadline and therefore stays OFF.
C7_AutoRevert ==
    \A i \in 1..Len(lamps) :
        LET l == lamps[i]
            c == last_cmd[i]
        IN  (/\ c.op = "turn_on" /\ Updated(i)
             /\ l.on_secs /= None /\ l.on_secs > 0 /\ l.off_secs = None)
            => /\ l.is_on <=> time < c.at + l.on_secs
               /\ ~l.is_on => (l.device = 0 /\ l.on_time = None)

\* The lamp went out at its deadline and an update after the deadline has
\* left it off.
C7_Witness ==
    \E i \in 1..Len(lamps) :
        /\ last_cmd[i].op = "turn_on" /\ pc = "sleep"
        /\ lamps[i].on_secs /= None /\ lamps[i].on_secs > 0
        /\ lamps[i].off_secs = None
        /\ ~lamps[i].is_on
        /\ time > last_cmd[i].at + lamps[i].on_secs

\* C8 (re-trigger): after a poll that called turn_on at clock value now on a
\* lamp that was already ON and has on_secs set, the lamp is ON, its
\* activation effect is applied, its turn-off deadline is exactly
\* now + on_secs, and that is not earlier than the deadline it replaced.
C8_Retrigger ==
    \A i \in 1..Len(lamps) :
        LET l == lamps[i]
            c == issued[i]
        IN  (/\ pc = "sleep" /\ c.op = "turn_on" /\ c.was_on
             /\ l.on_secs /= None)
            => /\ l.is_on
               /\ l.off_time = time + l.on_secs
               /\ c.prev_off /= None => l.off_time >= c.prev_off
               /\ l.kind = "lamp" => l.device = 1
               /\ (l.kind = "multicolor" /\ l.color /= None) => l.device = l.color

\* A lit lamp was turned on again and its deadline moved later.
C8_Witness ==
    \E i \in 1..Len(lamps) :
        /\ pc = "sleep" /\ issued[i].op = "turn_on" /\ issued[i].was_on
        /\ lamps[i].on_secs /= None
        /\ issued[i].prev_off /= None
        /\ lamps[i].off_time > issued[i].prev_off

\* C9 as claimed: while is_on is true on_time is None, and while is_on is
\* false off_time is None.
C9_Original ==
    \A i \in 1..Len(lamps) :
        /\ lamps[i].is_on => lamps[i].on_time = None
        /\ ~lamps[i].is_on => lamps[i].off_time = None

\* The lamp l with the deadline its current state does not use removed.
WithoutStale(l) ==
    IF l.is_on THEN [l EXCEPT !.on_time = None] ELSE [l EXCEPT !.off_time = None]

\* C9 (deadlines, amended): off_time is set only on a lamp with on_secs and
\* on_time only on a lamp with off_secs; the deadline of the state the lamp
\* is not in may keep its old value, and update never acts on it: it does
\* the same with and without that value.
C9_Deadlines ==
    \A i \in 1..Len(lamps) :
        LET l == lamps[i]
            r == update(l, time)
            rc == update(WithoutStale(l), time)
        IN  /\ l.off_time /= None => l.on_secs /= None
            /\ l.on_time /= None => l.off_secs /= None
            /\ r.is_on = rc.is_on /\ r.device = rc.device
            /\ IF r.is_on THEN r.off_time = rc.off_time
                          ELSE r.on_time = rc.on_time

\* A lamp is off and still carries the turn-off deadline that switched it off.
C9_Witness ==
    \E i \in 1..Len(lamps) :
        /\ ~lamps[i].is_on /\ lamps[i].off_time /= None
        /\ lamps[i].off_time <= time
        /\ last_cmd[i].op = "turn_on"

\* The calls one iteration of gadget_main makes, in order.
Iteration ==
    <<Call("tick", 0)>>
    \o [i \in 1..Len(lamps) |-> Call("update", i)]
    \o <<Call("poll", 0)>>

\* C10 (scheduler ordering): gadget.init() is called once, before the first
\* iteration; the calls of an iteration are always a prefix of tick, update
\* of each registered lamp in registration order, poll; and an iteration that
\* has ended made all of them, each once.
C10_Ordering ==
    /\ n_init = IF pc = "init" THEN 0 ELSE 1
    /\ pc = "init" => calls = <<>>
    /\ Len(calls) <= Len(Iteration)
    /\ calls = SubSeq(Iteration, 1, Len(calls))
    /\ pc = "update" => Len(calls) = idx
    /\ pc = "poll" => Len(calls) = Len(Iteration) - 1
    /\ (pc = "sleep" /\ calls /= <<>>) => calls = Iteration

\* An iteration over two registered lamps has ended.
C10_Witness ==
    /\ pc = "sleep" /\ Len(lamps) = 2 /\ calls = Iteration /\ time > 0

\* C11 (one clock per iteration): every value an iteration of the page
\* turner writes is computed from the one clock value the iteration read:
\* a lamp deadline that changes becomes that value plus the lamp's hold
\* duration, whether written by the keyboard connection, an update or the tap
\* handling; a tap start or end that is written is that value; and when the
\* classifier finalizes a gesture, the capture window has elapsed at that
\* value and the page lamp and the status lamp get their deadlines from it.
C11_OneClock ==
    [][/\ \A i \in 1..Len(lamps) :
            /\ lamps'[i].off_time /= lamps[i].off_time
                  => (/\ lamps'[i].on_secs /= None
                      /\ lamps'[i].off_time = time' + lamps'[i].on_secs)
            /\ lamps'[i].on_time /= lamps[i].on_time
                  => (/\ lamps'[i].off_secs /= None
                      /\ lamps'[i].on_time = time' + lamps'[i].off_secs)
       /\ Len(taps') > Len(taps) => Last(taps').start = time'
       /\ (/\ Len(taps') = Len(taps) /\ Len(taps) > 0
           /\ Last(taps).end = None /\ Last(taps').end /= None)
          => Last(taps').end = time'
       /\ released'
          => /\ time' - done'[1].start >= TAP_CAPTURE_SECS
             /\ lamps'[STATUS].off_time = time' + STATUS_LAMP_ON_SECS
             /\ tap_count' = 1 => lamps'[PGDN].off_time = time' + PGXX_LAMP_ON_SECS
             /\ tap_count' = 2 => lamps'[PGUP].off_time = time' + PGXX_LAMP_ON_SECS
      ]_vars

\* A single tap was finalized exactly when its capture window ended, by an
\* iteration that advanced the clock, and the lamps it lit are due one hold
\* duration after that clock value.
C11_Witness ==
    /\ Reported /\ tap_count = 1 /\ time > 0
    /\ time - done[1].start = TAP_CAPTURE_SECS
    /\ lamps[STATUS].is_on /\ lamps[PGDN].is_on
    /\ lamps[STATUS].off_time = time + STATUS_LAMP_ON_SECS
    /\ lamps[PGDN].off_time = time + PGXX_LAMP_ON_SECS

\* The feedback of a gesture: lamp page and the status lamp were turned on at
\* the current clock value, the status lamp with the given colour.
Feedback(page, color) ==
    /\ lamps[page].is_on /\ lamps[page].device = 1
    /\ lamps[page].off_time = time + PGXX_LAMP_ON_SECS
    /\ lamps[STATUS].is_on
    /\ lamps[STATUS].color = color /\ lamps[STATUS].device = color
    /\ lamps[STATUS].off_time = time + STATUS_LAMP_ON_SECS

\* The keystrokes the last poll sent.
Keys == [i \in 1..Len(sent) |-> sent[i].key]

\* C12 (feedback decoupled from transmission): after an iteration that
\* finalized a gesture of count 1 the pgdn lamp and the status lamp, in the
\* single-tap colour, are on as turned on in that iteration, and PAGE_DOWN was
\* sent in it exactly if the keyboard exists; the same for count 2 with the
\* pgup lamp, the double-tap colour and PAGE_UP; and an iteration that
\* finalized no gesture sent nothing, so a dropped keystroke is never sent
\* later.
C12_Feedback ==
    /\ (Reported /\ tap_count = 1)
          => /\ Feedback(PGDN, STATUS_COLOR_SINGLE_TAP)
             /\ Keys = IF keyboard_output THEN <<"PAGE_DOWN">> ELSE <<>>
    /\ (Reported /\ tap_count = 2)
          => /\ Feedback(PGUP, STATUS_COLOR_DOUBLE_TAP)
             /\ Keys = IF keyboard_output THEN <<"PAGE_UP">> ELSE <<>>
    /\ ~Reported => sent = <<>>

\* A double tap was finalized before any host connected: the lamps are lit
\* and nothing was sent.
C12_Witness ==
    /\ Reported /\ tap_count = 2 /\ ~keyboard_output /\ sent = <<>>
    /\ Feedback(PGUP, STATUS_COLOR_DOUBLE_TAP)

\* C13 (host-link gating) as claimed: every keystroke a poll sends is sent
\* while supervisor.runtime.usb_connected is true.  The poll tests only
\* whether the keyboard object exists, and that object is kept once made, so
\* a gesture finalized after the host has gone away is still sent.
C13_Gating ==
    \A i \in 1..Len(sent) : sent[i].linked

\* The lamps ls after "lamp.update()" was called on them in the given order
\* of positions.
RECURSIVE UpdateIn(_, _, _)
UpdateIn(ls, order, now) ==
    IF order = <<>> THEN ls
    ELSE UpdateIn([ls EXCEPT ![Head(order)] = update(@, now)], Tail(order), now)

\* The orders in which n lamps can be visited, each once.
Orders(n) ==
    {o \in [1..n -> 1..n] : \A i, j \in 1..n : o[i] = o[j] => i = j}

\* The lamps as the batch of the current iteration found them: the lamps
\* before position idx have had their update, and updating them again at the
\* same clock value may act once more, so the property is stated where the
\* batch starts.
BatchStart == pc = "update" /\ idx = 1

\* Registration order.
Registered == [i \in 1..Len(lamps) |-> i]

\* C14 (registry ordering independence): where the batch update of an
\* iteration starts, updating the registered lamps in any order gives the
\* same lamps as updating them in registration order; a step of the batch
\* changes the lamp it updates and no other; and the batch done in
\* registration order leaves exactly the lamps every order gives.
C14_OrderFree ==
    /\ [](BatchStart =>
            \A o \in Orders(Len(lamps)) :
                UpdateIn(lamps, o, time) = UpdateIn(lamps, Registered, time))
    /\ [][pc = "update" =>
            /\ \A j \in 1..Len(lamps) : j /= idx => lamps'[j] = lamps[j]
            /\ UpdateIn(lamps', SubSeq(Registered, idx + 1, Len(lamps)), time)
                  = UpdateIn(lamps, SubSeq(Registered, idx, Len(lamps)), time)]_vars

\* A batch starts with both lamps due: each of the two updates changes its
\* lamp.
C14_Witness ==
    /\ BatchStart /\ Len(lamps) = 2
    /\ update(lamps[1], time) /= lamps[1]
    /\ update(lamps[2], time) /= lamps[2]

\* C15 as claimed: across a step in which the status lamp is on before and
\* after, the colour it shows does not change.
C15_Original ==
    [][(lamps[STATUS].is_on /\ lamps'[STATUS].is_on)
          => lamps'[STATUS].device = lamps[STATUS].device]_vars

\* The colour poll sets for a gesture of the given count.
StatusColor(count) ==
    IF count = 1 THEN STATUS_COLOR_SINGLE_TAP ELSE STATUS_COLOR_DOUBLE_TAP

\* C15 (colour changes, amended): the colour the status lamp shows changes
\* only in an iteration that finalizes a gesture, which paints the colour of
\* that gesture and restarts the hold whether the lamp was off or still lit,
\* or in an iteration that turns the lamp off, which blanks it; every
\* iteration that finalizes a gesture leaves the lamp showing that gesture's
\* colour.
C15_Repaint ==
    [][LET a == lamps[STATUS]
           b == lamps'[STATUS]
       IN  /\ b.device /= a.device
                => \/ released' /\ b.is_on
                   \/ a.is_on /\ ~b.is_on /\ b.device = 0
           /\ released'
                => /\ b.is_on
                   /\ b.device = StatusColor(tap_count')
                   /\ b.color = StatusColor(tap_count')
                   /\ b.off_time = time' + STATUS_LAMP_ON_SECS
           /\ ~released' /\ a.is_on /\ b.is_on => b = a
      ]_vars

\* A double tap was finalized while the lamps lit by a single tap were still
\* on: the pgdn lamp is lit from the single tap, and the status lamp, lit
\* since then, shows the double-tap colour.
C15_Witness ==
    /\ Reported /\ n_reports = 2 /\ tap_count = 2
    /\ lamps[PGDN].is_on /\ lamps[PGDN].off_time > time
    /\ lamps[PGDN].off_time < time + PGXX_LAMP_ON_SECS
    /\ lamps[STATUS].is_on
    /\ lamps[STATUS].device = STATUS_COLOR_DOUBLE_TAP

\* C16 (update acts only on the deadline of the current state): an update
\* that changes a lamp finds it in a state entered by the latest turn_on (if
\* lit) or turn_off (if unlit), called at clock value c by poll or by an
\* earlier update, with the hold duration h of that state set and
\* now >= c + h, and it moves the lamp to the other state; so a lamp that was
\* never commanded, a state without hold duration, a deadline not yet reached
\* and a deadline left over from the state before all leave the lamp as it is.
C16_UpdateOnlyDue ==
    [][pc = "update" =>
          LET l == lamps[idx]
              e == entered[idx]
              h == IF l.is_on THEN l.on_secs ELSE l.off_secs
          IN  lamps'[idx] /= l =>
                 /\ e.op = IF l.is_on THEN "turn_on" ELSE "turn_off"
                 /\ h /= None
                 /\ time >= e.at + h
                 /\ lamps'[idx].is_on /= l.is_on
      ]_vars

\* An update has just switched off, exactly at its deadline, a lamp that poll
\* had turned on; the lamp keeps that elapsed deadline while it is off.
C16_Witness ==
    \E i \in 1..Len(lamps) :
        /\ pc = "poll" /\ time > 0
        /\ entered[i] = [op |-> "turn_off", at |-> time, by |-> "update"]
        /\ last_cmd[i].op = "turn_on"
        /\ lamps[i].on_secs /= None /\ lamps[i].on_secs > 0
        /\ time = last_cmd[i].at + lamps[i].on_secs
        /\ ~lamps[i].is_on /\ lamps[i].off_time = time

\* What the check_released of the step being taken returns and leaves
\* pending: the call is made at the clock value of the iteration with the
\* contact the step samples.
Released ==
    check_released(armed, taps,
                   IF tapped' THEN TAP_VALUE_THRESHOLD - 1 ELSE TAP_VALUE_THRESHOLD,
                   time)

\* C17 (never early): a check_released that returns True sampled no contact
\* on an armed classifier and leaves at least one tap pending, every pending
\* tap with its end set, the first started TAP_CAPTURE_SECS or more before
\* now; and a sample without contact taken less than TAP_CAPTURE_SECS after
\* the start of the first pending tap never returns True.
C17_NotEarly ==
    [][pc = "poll" =>
          /\ released' = Released.ret
          /\ released' =>
                /\ armed /\ ~tapped'
                /\ Len(Released.taps) >= 1
                /\ \A i \in 1..Len(Released.taps) : Released.taps[i].end /= None
                /\ time - Released.taps[1].start >= TAP_CAPTURE_SECS
          /\ (/\ ~tapped' /\ Len(taps) >= 1
              /\ time - taps[1].start < TAP_CAPTURE_SECS) => ~released'
      ]_vars

\* The release of the only pending tap was just observed inside the capture
\* window, and no gesture was reported.
C17_Witness ==
    /\ pc = "sleep" /\ armed /\ ~tapped /\ ~released
    /\ Len(taps) = 1 /\ taps[1].end = time
    /\ time - taps[1].start < TAP_CAPTURE_SECS

\* C18 (capture-window attribution) as claimed: every pending tap, and every
\* pulse of a reported gesture, started less than TAP_CAPTURE_SECS after the
\* first one.  check_released adds a Tap at any sample that shows contact
\* once the previous tap is finalized, whatever the time since the first
\* start, so contact sampled at the first iteration at or after the end of the
\* window joins the gesture.
C18_Attribution ==
    /\ \A i \in 1..Len(taps) : taps[i].start - taps[1].start < TAP_CAPTURE_SECS
    /\ Reported =>
          \A i \in 1..Len(done) : done[i].start - done[1].start < TAP_CAPTURE_SECS

\* C19 (pending-tap invariant): in every state of an armed TapInput every
\* pending tap but the last has its end set, at least TAP_MIN_SECS after its
\* start, so only the last may have its end unset; the last, once its end is
\* set, lasted at least TAP_MIN_SECS too; and each tap starts no earlier than
\* the one before it, in fact no earlier than the one before it ended.
C19_Pending ==
    armed =>
        /\ \A i \in 1..Len(taps) :
              /\ i < Len(taps) => taps[i].end /= None
              /\ taps[i].end /= None => taps[i].end - taps[i].start >= TAP_MIN_SECS
        /\ \A i \in 1..Len(taps) - 1 :
              /\ taps[i].start <= taps[i + 1].start
              /\ taps[i].end <= taps[i + 1].start

\* Two finished taps are pending and a third is in contact.
C19_Witness ==
    /\ pc = "sleep" /\ armed /\ tapped /\ Len(taps) = 3
    /\ taps[1].end /= None /\ taps[2].end /= None /\ taps[3].end = None

\* Lamp i has had an update since the call that entered its current state:
\* the batch of this iteration is past it, poll has not run yet, and the
\* call was made by poll, so in an earlier iteration, or at an earlier clock
\* value.
UpdatedSince(i) ==
    /\ pc = "poll" \/ (pc = "update" /\ idx > i)
    /\ entered[i].by = "poll" \/ entered[i].at < time

\* C20 (a deadline of any value is pending) as claimed: a lamp whose state
\* was entered by turn_on at clock value c with on_secs present is off after
\* the first update at a clock value of c + on_secs or more, and a lamp whose
\* state was entered by turn_off at c with off_secs present is on after the
\* first update at c + off_secs or more, the deadline 0 included.  update
\* tests the deadline for truth before it compares it, and 0 is false.
C20_AnyDeadline ==
    \A i \in 1..Len(lamps) :
        LET l == lamps[i]
            e == entered[i]
        IN  /\ (/\ UpdatedSince(i) /\ e.op = "turn_on"
                /\ l.on_secs /= None /\ time >= e.at + l.on_secs)
               => ~l.is_on
            /\ (/\ UpdatedSince(i) /\ e.op = "turn_off"
                /\ l.off_secs /= None /\ time >= e.at + l.off_secs)
               => l.is_on
=============================================================================
